---- MODULE Spec2Model ----
(***************************************************************************)
(* Model of the Flask gateway in test-frontend/app.py: the signed-cookie   *)
(* session, the backend call helper, every route handler, the temporary    *)
(* upload files on disk and the streaming generator.                       *)
(*                                                                         *)
(* Python dicts are functions whose DOMAIN is the set of keys present.     *)
(* Python None is the string "None".  The backend is the environment: each *)
(* handler draws the backend's answer to every call it makes from a small  *)
(* set of responses.                                                       *)
(***************************************************************************)
EXTENDS Integers, Sequences, FiniteSets, TLC

VARIABLES
    session,    \* flask.session of the one browser client (a dict)
    disk,       \* temporary files that exist under UPLOAD_FOLDER
    route,      \* the handler serving the request in progress
    req,        \* the inputs of the request in progress (a dict)
    resp,       \* the response its handler returned
    calls,      \* the backend calls issued while serving it
    pc,         \* "idle", "responded", or the position of generate_stream()
    upstream,   \* the connection generate_stream() holds to the backend
    delivered,  \* the lines response.iter_lines() has handed to generate_stream()
    frames      \* the frames generate_stream() has yielded so far

vars == <<session, disk, route, req, resp, calls, pc, upstream, delivered, frames>>

---------------------------------------------------------------------------
(* Bounds of the model. *)

\* most lines the backend delivers on one streaming response
MaxLines == 3

\* most messages flash() may leave queued in the session
MaxFlashes == 1

\* uuid4() values the model distinguishes
MaxUuid == 1

---------------------------------------------------------------------------
(* Python dicts. *)

None == "None"

EmptyDict == [k \in {} |-> TRUE]

Has(d, k) == k \in DOMAIN d

Get(d, k, default) == IF k \in DOMAIN d THEN d[k] ELSE default

Put(d, k, v) == [j \in DOMAIN d \cup {k} |-> IF j = k THEN v ELSE d[j]]

Pop(d, k) == [j \in DOMAIN d \ {k} |-> d[j]]

---------------------------------------------------------------------------
(* What the backend may answer to one HTTP call. *)

Transport == [kind |-> "transport", status |-> 0, isJson |-> FALSE, body |-> EmptyDict]

Http(s, b) == [kind |-> "http", status |-> s, isJson |-> TRUE, body |-> b]

HttpRaw(s) == [kind |-> "http", status |-> s, isJson |-> FALSE, body |-> EmptyDict]

ErrorBodies ==
    { EmptyDict,
      [error |-> "not found"],
      [message |-> "bad request"],
      [error |-> "denied", message |-> "bad request"] }

\* answers that are not a success: transport failure, HTTP >= 400 with a JSON or
\* a non-JSON body, and HTTP 200 whose body reports the failure
Failures ==
    {Transport}
    \cup {Http(404, b) : b \in ErrorBodies}
    \cup {Http(500, [message |-> "bad request"]), HttpRaw(500), HttpRaw(404)}
    \cup {Http(200, [success |-> FALSE, error |-> "rejected"]),
          Http(200, [success |-> FALSE])}

---------------------------------------------------------------------------
(* make_backend_request *)

NetworkError == "Network error: ..."

HttpErrorMsg(status) == "HTTP " \o ToString(status) \o " error"

\* the body of make_backend_request after the HTTP call returned `r`
MakeBackendRequest(r) ==
    IF r.kind = "transport"
    THEN [success |-> FALSE, error |-> NetworkError]
    ELSE IF r.status >= 400
         THEN IF r.isJson
              THEN [success |-> FALSE,
                    error |-> Get(r.body, "error",
                                  Get(r.body, "message", HttpErrorMsg(r.status))),
                    status_code |-> r.status]
              ELSE [success |-> FALSE,
                    error |-> HttpErrorMsg(r.status),
                    status_code |-> r.status]
         ELSE r.body

\* the headers make_backend_request sends
Headers(files, token) ==
    LET base == IF files THEN EmptyDict
                ELSE [ContentType |-> "application/json"]
    IN  IF token # None /\ token # ""
        THEN Put(base, "Authorization", "Bearer " \o token)
        ELSE base

\* one entry of the log of backend calls: what was sent, what came back and
\* what the caller got
Call(endpoint, method, data, files, token, r) ==
    [endpoint |-> endpoint, method |-> method, data |-> data,
     headers |-> Headers(files, token), response |-> r,
     result |-> MakeBackendRequest(r)]

Success(result) == Get(result, "success", FALSE) = TRUE

---------------------------------------------------------------------------
(* Responses of the handlers. *)

Jsonify(body) == [kind |-> "json", body |-> body]

Redirect(target) == [kind |-> "redirect", body |-> [location |-> target]]

RenderTemplate(name, ctx) == [kind |-> "html", body |-> Put(ctx, "template", name)]

\* flash(): appends to the session's '_flashes' list
Flash(s, msg) == Put(s, "_flashes", Append(Get(s, "_flashes", <<>>), msg))

\* the handler returned a response that is not a stream
Responded == /\ pc' = "responded"
             /\ upstream' = "none"
             /\ delivered' = <<>>
             /\ frames' = <<>>

\* the client issues its requests one after the other (no request in progress)
Serving == pc = "idle"

NoResponse == [kind |-> "none", body |-> EmptyDict]

---------------------------------------------------------------------------
(* The values the backend and the browser supply. *)

Emails == {"a@x.io"}

Tokens == {"t1", "t2"}

Users == {[id |-> "u1", role |-> "user"], [id |-> "g1", role |-> "guest"]}

CounterVals == {0, 3}

Limitations ==
    { [totalMessagesLimit |-> 5, totalMessagesUsed |-> 0, remainingMessages |-> 5],
      [totalMessagesLimit |-> 3, totalMessagesUsed |-> 3, remainingMessages |-> 0] }

---------------------------------------------------------------------------
(* index, register, login, guest_login, logout *)

Index ==
    /\ Serving
    /\ route' = "index"
    /\ req' = EmptyDict
    /\ resp' = IF Has(session, "user") THEN Redirect("dashboard")
               ELSE RenderTemplate("index.html", EmptyDict)
    /\ calls' = <<>>
    /\ Responded
    /\ UNCHANGED <<session, disk>>

RegisterPage ==
    /\ Serving
    /\ \E step \in {"GET", "other"} :
         req' = [step |-> step]
    /\ route' = "register"
    /\ resp' = RenderTemplate("auth/register.html", EmptyDict)
    /\ calls' = <<>>
    /\ Responded
    /\ UNCHANGED <<session, disk>>

RegisterStep ==
    /\ Serving
    /\ \E email \in Emails, r \in Failures \cup {Http(200, [success |-> TRUE])} :
         LET c == Call("users/register", "POST",
                       [email |-> email, acceptTerms |-> TRUE], FALSE, None, r)
         IN  /\ req' = [step |-> "register", email |-> email]
             /\ calls' = <<c>>
             /\ IF Success(c.result)
                THEN /\ session' = Put(session, "pending_email", email)
                     /\ resp' = Jsonify([success |-> TRUE,
                                         message |-> "OTP sent to your email"])
                ELSE /\ session' = session
                     /\ resp' = Jsonify([success |-> FALSE,
                                         error |-> Get(c.result, "error",
                                                       "Registration failed")])
    /\ route' = "register"
    /\ Responded
    /\ UNCHANGED disk

RegisterVerify ==
    /\ Serving
    /\ \E r \in Failures \cup {Http(200, [success |-> TRUE])} :
         LET c == Call("users/verify-email", "POST",
                       [email |-> Get(session, "pending_email", None),
                        otp |-> "123456"], FALSE, None, r)
         IN  /\ req' = [step |-> "verify"]
             /\ calls' = <<c>>
             /\ IF Success(c.result)
                THEN /\ session' = Pop(session, "pending_email")
                     /\ resp' = Jsonify([success |-> TRUE,
                                         message |-> "Registration completed successfully!"])
                ELSE /\ session' = session
                     /\ resp' = Jsonify([success |-> FALSE,
                                         error |-> Get(c.result, "error",
                                                       "OTP verification failed")])
    /\ route' = "register"
    /\ Responded
    /\ UNCHANGED disk

LoginPage ==
    /\ Serving
    /\ route' = "login"
    /\ req' = [method |-> "GET"]
    /\ resp' = RenderTemplate("auth/login.html", EmptyDict)
    /\ calls' = <<>>
    /\ Responded
    /\ UNCHANGED <<session, disk>>

Login ==
    /\ Serving
    /\ \E r \in Failures
              \cup {Http(200, [success |-> TRUE, data |-> [user |-> u, token |-> t]]) :
                      u \in Users, t \in Tokens} :
         LET c == Call("users/login", "POST", [email |-> "a@x.io"], FALSE, None, r)
         IN  /\ calls' = <<c>>
             /\ IF Success(c.result)
                THEN /\ session' = Put(Put(session, "user", c.result.data.user),
                                       "token", c.result.data.token)
                     /\ resp' = Jsonify([success |-> TRUE, redirect |-> "dashboard"])
                ELSE /\ session' = session
                     /\ resp' = Jsonify([success |-> FALSE,
                                         error |-> Get(c.result, "error", "Login failed")])
    /\ route' = "login"
    /\ req' = [method |-> "POST"]
    /\ Responded
    /\ UNCHANGED disk

GuestLogin ==
    /\ Serving
    /\ \E r \in Failures
              \cup {Http(200, [success |-> TRUE,
                               data |-> [user |-> [id |-> "g1", role |-> "guest"],
                                         token |-> t, limitations |-> l]]) :
                      t \in Tokens, l \in Limitations} :
         LET c == Call("users/guest-login", "POST", EmptyDict, FALSE, None, r)
         IN  /\ calls' = <<c>>
             /\ IF Success(c.result)
                THEN /\ session' = Put(Put(Put(session, "user", c.result.data.user),
                                           "token", c.result.data.token),
                                       "guest_limitations", c.result.data.limitations)
                     /\ resp' = Jsonify([success |-> TRUE, redirect |-> "dashboard"])
                ELSE /\ session' = session
                     /\ resp' = Jsonify([success |-> FALSE,
                                         error |-> Get(c.result, "error",
                                                       "Guest login failed")])
    /\ route' = "guest_login"
    /\ req' = EmptyDict
    /\ Responded
    /\ UNCHANGED disk

\* session.pop('user', None) in place of session.clear()
SessionPopUser(s) == Pop(s, "user")

\* session.clear()
SessionClear(s) == EmptyDict

Logout ==
    /\ Serving
    /\ session' = Flash(SessionClear(session), "You have been logged out successfully")
    /\ route' = "logout"
    /\ req' = EmptyDict
    /\ resp' = Redirect("index")
    /\ calls' = <<>>
    /\ Responded
    /\ UNCHANGED disk

---------------------------------------------------------------------------
(* Timestamps of conversations and messages. *)

\* the strings the backend puts in createdAt / updatedAt
IsoStamps == {"2024-05-01T10:00:00Z"}

\* datetime.fromisoformat(s.replace('Z', '+00:00')); None when it raises
FromIsoFormat(s) == IF s \in IsoStamps THEN "datetime(2024-05-01 10:00:00+00:00)" ELSE None

\* the conversion dashboard and conversation_view apply to one timestamp field
ConvertField(item, k) ==
    IF Has(item, k) /\ item[k] # None /\ item[k] # ""
    THEN Put(item, k, FromIsoFormat(item[k]))
    ELSE item

ConvertTimestamps(item) == ConvertField(ConvertField(item, "createdAt"), "updatedAt")

ConvertAll(items) == [i \in DOMAIN items |-> ConvertTimestamps(items[i])]

Conv1 == [conversationId |-> "c1", createdAt |-> "2024-05-01T10:00:00Z",
          updatedAt |-> "not-a-date"]

Conv2 == [conversationId |-> "c2"]

ConversationLists == {<<>>, <<Conv1>>, <<Conv2, Conv1>>}

MessageLists == {<<>>, <<[messageId |-> "m1", createdAt |-> "not-a-date"]>>}

ConversationIds == {"c1", "c9"}

\* the first conversation of the list with the id asked for, as a sequence of
\* at most one element (next(..., None))
FindConversation(convs, id) ==
    LET hits == {i \in DOMAIN convs : Get(convs[i], "conversationId", None) = id}
    IN  IF hits = {} THEN <<>>
        ELSE <<convs[CHOOSE i \in hits : \A j \in hits : i <= j]>>

---------------------------------------------------------------------------
(* dashboard, conversation_view *)

Dashboard ==
    /\ Serving
    /\ route' = "dashboard"
    /\ req' = EmptyDict
    /\ Responded
    /\ UNCHANGED <<session, disk>>
    /\ IF ~Has(session, "user")
       THEN /\ resp' = Redirect("index")
            /\ calls' = <<>>
       ELSE \E r \in Failures
                     \cup {Http(200, [success |-> TRUE, data |-> l]) : l \in ConversationLists}
                     \cup {Http(200, [success |-> TRUE])} :
              LET token == Get(session, "token", None)
                  c == Call("conversations/" \o session.user.id \o "?limit=20", "GET",
                            EmptyDict, FALSE, token, r)
                  conversations == IF Success(c.result)
                                   THEN ConvertAll(Get(c.result, "data", <<>>))
                                   ELSE <<>>
              IN  /\ calls' = <<c>>
                  /\ resp' = RenderTemplate("dashboard.html",
                                 [user |-> session.user,
                                  conversations |-> conversations,
                                  guest_limitations |->
                                      Get(session, "guest_limitations", None)])

ConversationView ==
    /\ Serving
    /\ route' = "conversation_view"
    /\ Responded
    /\ UNCHANGED disk
    /\ \E id \in ConversationIds :
         /\ req' = [conversation_id |-> id]
         /\ IF ~Has(session, "user")
            THEN /\ resp' = Redirect("index")
                 /\ calls' = <<>>
                 /\ session' = session
            ELSE \E r1 \in Failures
                           \cup {Http(200, [success |-> TRUE, data |-> l]) :
                                   l \in ConversationLists} :
                   LET token == Get(session, "token", None)
                       c1 == Call("conversations/" \o session.user.id, "GET",
                                  EmptyDict, FALSE, token, r1)
                       found == IF Success(c1.result)
                                THEN FindConversation(Get(c1.result, "data", <<>>), id)
                                ELSE <<>>
                   IN  IF found = <<>>
                       THEN /\ Len(Get(session, "_flashes", <<>>)) < MaxFlashes
                            /\ session' = Flash(session, "Conversation not found")
                            /\ resp' = Redirect("dashboard")
                            /\ calls' = <<c1>>
                       ELSE \E r2 \in Failures
                                      \cup {Http(200, [success |-> TRUE, data |-> m]) :
                                              m \in MessageLists} :
                              LET c2 == Call("conversations/" \o id \o "/messages", "GET",
                                             EmptyDict, FALSE, token, r2)
                                  messages == IF Success(c2.result)
                                              THEN Get(c2.result, "data", <<>>)
                                              ELSE <<>>
                              IN  /\ session' = session
                                  /\ calls' = <<c1, c2>>
                                  /\ resp' = RenderTemplate("conversation.html",
                                       [user |-> session.user,
                                        conversation |-> ConvertTimestamps(found[1]),
                                        messages |-> ConvertAll(messages),
                                        guest_limitations |->
                                            Get(session, "guest_limitations", None)])

---------------------------------------------------------------------------
(* Text.  A Python str is a sequence of one-character strings. *)

Whitespace == {" ", "\t", "\n"}

RECURSIVE LStrip(_)
LStrip(s) == IF s # <<>> /\ Head(s) \in Whitespace THEN LStrip(Tail(s)) ELSE s

RECURSIVE RStrip(_)
RStrip(s) ==
    IF s # <<>> /\ s[Len(s)] \in Whitespace THEN RStrip(SubSeq(s, 1, Len(s) - 1)) ELSE s

\* a strip that leaves the trailing whitespace in place
StripLeading(s) == LStrip(s)

\* str.strip()
Strip(s) == RStrip(LStrip(s))

LowerTable ==
    [A |-> "a", B |-> "b", C |-> "c", D |-> "d", E |-> "e", F |-> "f", G |-> "g",
     H |-> "h", I |-> "i", J |-> "j", K |-> "k", L |-> "l", M |-> "m", N |-> "n",
     O |-> "o", P |-> "p", Q |-> "q", R |-> "r", S |-> "s", T |-> "t", U |-> "u",
     V |-> "v", W |-> "w", X |-> "x", Y |-> "y", Z |-> "z"]

\* str.lower()
Lower(s) == [i \in DOMAIN s |-> IF s[i] \in DOMAIN LowerTable THEN LowerTable[s[i]] ELSE s[i]]

\* filename.rsplit('.', 1)[1], for a filename that holds a '.'
RSplitDot(s) ==
    LET dots == {i \in DOMAIN s : s[i] = "."}
        last == CHOOSE i \in dots : \A j \in dots : j <= i
    IN  SubSeq(s, last + 1, Len(s))

ALLOWED_EXTENSIONS ==
    { <<"t", "x", "t">>, <<"p", "d", "f">>, <<"p", "n", "g">>, <<"j", "p", "g">>,
      <<"j", "p", "e", "g">>, <<"g", "i", "f">>, <<"m", "p", "3">>,
      <<"m", "p", "4">>, <<"w", "a", "v">>, <<"o", "g", "g">> }

\* filename.split('.')[1] in place of filename.rsplit('.', 1)[1]: the text
\* between the first dot and the second
allowed_file_first_dot(filename) ==
    /\ \E i \in DOMAIN filename : filename[i] = "."
    /\ LET dots == {i \in DOMAIN filename : filename[i] = "."}
           first == CHOOSE i \in dots : \A j \in dots : i <= j
           rest == dots \ {first}
           stop == IF rest = {} THEN Len(filename) + 1
                   ELSE CHOOSE i \in rest : \A j \in rest : i <= j
       IN  Lower(SubSeq(filename, first + 1, stop - 1)) \in ALLOWED_EXTENSIONS

allowed_file(filename) ==
    /\ \E i \in DOMAIN filename : filename[i] = "."
    /\ Lower(RSplitDot(filename)) \in ALLOWED_EXTENSIONS

RECURSIVE LStripChars(_, _)
LStripChars(s, cs) == IF s # <<>> /\ Head(s) \in cs THEN LStripChars(Tail(s), cs) ELSE s

RECURSIVE RStripChars(_, _)
RStripChars(s, cs) ==
    IF s # <<>> /\ s[Len(s)] \in cs
    THEN RStripChars(SubSeq(s, 1, Len(s) - 1), cs)
    ELSE s

\* werkzeug's secure_filename on a name of ASCII letters, digits and dots (no
\* whitespace, no path separator): it strips leading and trailing '.' and '_'
SecureFilename(s) == RStripChars(LStripChars(s, {".", "_"}), {".", "_"})

---------------------------------------------------------------------------
(* create_conversation *)

Titles == { <<>>, <<" ", "\t">>, <<" ", "H", "i", " ">>, <<"H", "i">> }

CreateData ==
    {EmptyDict}
    \cup {[title |-> t] : t \in Titles}
    \cup {[systemInstruction |-> <<" ", "b", "e">>]}
    \cup {[title |-> t, systemInstruction |-> i] :
            t \in Titles, i \in {<<" ">>, <<" ", "b", "e">>}}

DefaultConfig == [model |-> "gemini-2.5-flash", temperature |-> "0.7", maxOutputTokens |-> 2048]

CreateAnswers ==
    Failures
    \cup {Http(201, [success |-> TRUE, data |-> [conversationId |-> "c1"]]),
          Http(200, [success |-> TRUE, data |-> EmptyDict]),
          Http(200, [success |-> TRUE])}

CreateConversation ==
    /\ Serving
    /\ route' = "create_conversation"
    /\ Responded
    /\ UNCHANGED <<session, disk>>
    /\ \E data \in CreateData :
         /\ req' = [data |-> data]
         /\ IF ~Has(session, "user")
            THEN /\ resp' = Jsonify([success |-> FALSE, error |-> "Not authenticated"])
                 /\ calls' = <<>>
            ELSE IF data = EmptyDict
            THEN /\ resp' = Jsonify([success |-> FALSE, error |-> "No data provided"])
                 /\ calls' = <<>>
            ELSE IF Strip(Get(data, "title", <<>>)) = <<>>
            THEN /\ resp' = Jsonify([success |-> FALSE, error |-> "Title is required"])
                 /\ calls' = <<>>
            ELSE \E r \in CreateAnswers :
                   LET token == Get(session, "token", None)
                       title == Strip(Get(data, "title", <<>>))
                       system_instruction == Strip(Get(data, "systemInstruction", <<>>))
                       config == IF system_instruction # <<>>
                                 THEN Put(DefaultConfig, "systemInstruction",
                                          system_instruction)
                                 ELSE DefaultConfig
                       c == Call("conversations", "POST",
                                 [userId |-> session.user.id, title |-> title,
                                  config |-> config], FALSE, token, r)
                       conversation_id ==
                           Get(Get(c.result, "data", EmptyDict), "conversationId", None)
                   IN  /\ calls' = <<c>>
                       /\ resp' =
                            IF Success(c.result)
                            THEN IF conversation_id # None
                                 THEN Jsonify([success |-> TRUE,
                                               conversationId |-> conversation_id])
                                 ELSE Jsonify([success |-> FALSE, error |->
                                          "No conversation ID returned from backend"])
                            ELSE Jsonify([success |-> FALSE,
                                          error |-> Get(c.result, "error",
                                                        "Failed to create conversation")])

---------------------------------------------------------------------------
(* upload_file *)

FileNames ==
    { <<>>,
      <<"a", "b">>,
      <<"a", ".">>,
      <<"a", ".", "t", "x", "t">>,
      <<"a", ".", "T", "x", "T">>,
      <<"a", ".", "e", "x", "e">>,
      <<"a", ".", "t", "x", "t", ".", "e", "x", "e">>,
      <<".", "p", "n", "g">> }

UploadedFile == [fileId |-> "f1", originalName |-> "a.txt", size |-> 12,
                 mimeType |-> "text/plain"]

UploadAnswers ==
    Failures
    \cup {Http(200, [success |-> TRUE, files |-> <<UploadedFile>>]),
          Http(200, [success |-> TRUE, files |-> <<>>]),
          Http(200, [success |-> TRUE])}

Uuids == 1 .. MaxUuid

\* temp_path: the file is told from every other temporary file by its uuid4()
TempPath(uuid, filename) == uuid

FreeUuids == Uuids \ disk

ServerError == [kind |-> "error500", body |-> EmptyDict]

\* the except clause of upload_file, entered with the files `d` on disk;
\* `rm` is whether its os.remove succeeds
UploadExcept(d, temp_path, rm) ==
    IF temp_path \in d
    THEN IF rm
         THEN /\ disk' = d \ {temp_path}
              /\ resp' = Jsonify([success |-> FALSE, error |-> "str(e)"])
         ELSE /\ disk' = d
              /\ resp' = ServerError
    ELSE /\ disk' = d
         /\ resp' = Jsonify([success |-> FALSE, error |-> "str(e)"])

\* upload_file from file.save(temp_path) on
UploadSaved(filename, openOk, r, rm1, rm2) ==
    LET name == SecureFilename(filename)
        temp_path == TempPath(CHOOSE u \in FreeUuids : \A v \in FreeUuids : u <= v, name)
        saved == disk \cup {temp_path}
        c == Call("files/upload", "POST",
                  [storageMethod |-> "google-file-api", userId |-> session.user.id,
                   conversationId |-> "", displayName |-> name],
                  TRUE, None, r)
    IN  /\ req' = [hasFile |-> TRUE, filename |-> filename, saved |-> {temp_path}]
        /\ IF ~openOk
           THEN /\ calls' = <<>>
                /\ UploadExcept(saved, temp_path, rm2)
           ELSE /\ calls' = <<c>>
                /\ IF ~rm1
                   THEN UploadExcept(saved, temp_path, rm2)
                   ELSE IF Success(c.result)
                   THEN IF Has(c.result, "files") /\ c.result.files # <<>>
                        THEN /\ disk' = saved \ {temp_path}
                             /\ resp' = Jsonify([success |-> TRUE, file |->
                                    [id |-> c.result.files[1].fileId,
                                     name |-> c.result.files[1].originalName,
                                     size |-> c.result.files[1].size,
                                     type |-> c.result.files[1].mimeType]])
                        ELSE UploadExcept(saved \ {temp_path}, temp_path, rm2)
                   ELSE /\ disk' = saved \ {temp_path}
                        /\ resp' = Jsonify([success |-> FALSE,
                                            error |-> Get(c.result, "error", "Upload failed")])

UploadFile ==
    /\ Serving
    /\ route' = "upload_file"
    /\ Responded
    /\ UNCHANGED session
    /\ \E hasFile \in BOOLEAN, filename \in FileNames :
         LET rejected(error) ==
               /\ req' = [hasFile |-> hasFile, filename |-> filename, saved |-> {}]
               /\ resp' = Jsonify([success |-> FALSE, error |-> error])
               /\ calls' = <<>>
               /\ disk' = disk
         IN  IF ~Has(session, "user") THEN rejected("Not authenticated")
             ELSE IF ~hasFile THEN rejected("No file provided")
             ELSE IF filename = <<>> THEN rejected("No file selected")
             ELSE IF ~allowed_file(filename) THEN rejected("File type not allowed")
             ELSE /\ FreeUuids # {}
                  /\ \E openOk \in BOOLEAN, r \in UploadAnswers, rm1 \in BOOLEAN,
                        rm2 \in BOOLEAN :
                       UploadSaved(filename, openOk, r, rm1, rm2)

---------------------------------------------------------------------------
(* send_message *)

LimitKeys == {"totalMessages", "totalMessagesUsed", "remainingMessages"}

\* the guestLimits objects the backend may send: all three counters, none of
\* them, or only some of them
GuestLimitDicts ==
    [LimitKeys -> CounterVals]
    \cup {EmptyDict, [totalMessagesUsed |-> 3], [totalMessages |-> 3, remainingMessages |-> 0]}

SendAnswers ==
    Failures
    \cup {Http(200, [success |-> TRUE]),
          Http(200, [success |-> TRUE, usageInfo |-> EmptyDict])}
    \cup {Http(200, [success |-> TRUE, usageInfo |-> [guestLimits |-> g]]) :
            g \in GuestLimitDicts}

\* the payload send_message and generate_stream build
MessageData(userId, stream) ==
    [userId |-> userId, conversationId |-> "c1", contents |-> "hello",
     model |-> "gemini-2.5-flash", stream |-> stream,
     config |-> [temperature |-> "0.7", maxOutputTokens |-> 2048,
                 thinkingConfig |-> [includeThoughts |-> TRUE, thinkingBudget |-> -1]]]

\* the record send_message stores from a non-empty guestLimits object
GuestLimitations(guest_usage_info) ==
    [totalMessagesLimit |-> Get(guest_usage_info, "totalMessages", 5),
     totalMessagesUsed |-> Get(guest_usage_info, "totalMessagesUsed", 0),
     remainingMessages |-> Get(guest_usage_info, "remainingMessages", 5)]

\* dict.update in place of the assignment: a counter the backend left out keeps
\* the value the session held
SessionAfterSendMerge(s, result) ==
    LET usageInfo == Get(result, "usageInfo", EmptyDict)
        guest_usage_info == Get(usageInfo, "guestLimits", EmptyDict)
        prior == Get(s, "guest_limitations", GuestLimitations(EmptyDict))
    IN  IF s.user.role = "guest" /\ usageInfo # EmptyDict /\ guest_usage_info # EmptyDict
        THEN Put(s, "guest_limitations",
                 [totalMessagesLimit |->
                      Get(guest_usage_info, "totalMessages", prior.totalMessagesLimit),
                  totalMessagesUsed |->
                      Get(guest_usage_info, "totalMessagesUsed", prior.totalMessagesUsed),
                  remainingMessages |->
                      Get(guest_usage_info, "remainingMessages", prior.remainingMessages)])
        ELSE s

\* the session after a successful ai/generate answered `result`
SessionAfterSend(s, result) ==
    LET usageInfo == Get(result, "usageInfo", EmptyDict)
        guest_usage_info == Get(usageInfo, "guestLimits", EmptyDict)
    IN  IF s.user.role = "guest" /\ usageInfo # EmptyDict /\ guest_usage_info # EmptyDict
        THEN Put(s, "guest_limitations", GuestLimitations(guest_usage_info))
        ELSE s

SendMessage ==
    /\ Serving
    /\ route' = "send_message"
    /\ req' = EmptyDict
    /\ Responded
    /\ UNCHANGED disk
    /\ IF ~Has(session, "user")
       THEN /\ resp' = Jsonify([success |-> FALSE, error |-> "Not authenticated"])
            /\ calls' = <<>>
            /\ session' = session
       ELSE \E r \in SendAnswers :
              LET token == Get(session, "token", None)
                  c == Call("ai/generate", "POST", MessageData(session.user.id, FALSE),
                            FALSE, token, r)
              IN  /\ calls' = <<c>>
                  /\ IF Success(c.result)
                     THEN /\ session' = SessionAfterSend(session, c.result)
                          /\ resp' = Jsonify(
                               [success |-> TRUE,
                                userMessage |-> Get(c.result, "userMessage", EmptyDict),
                                aiResponse |-> Get(c.result, "modelMessage", EmptyDict),
                                updatedGuestLimitations |->
                                    IF session.user.role = "guest"
                                    THEN Get(session', "guest_limitations", None)
                                    ELSE None])
                     ELSE /\ session' = session
                          /\ resp' = Jsonify([success |-> FALSE,
                                              error |-> Get(c.result, "error",
                                                            "Failed to send message")])

---------------------------------------------------------------------------
(* get_messages, delete_file, debug_session, test_backend *)

GetMessages ==
    /\ Serving
    /\ route' = "get_messages"
    /\ Responded
    /\ UNCHANGED <<session, disk>>
    /\ \E id \in ConversationIds :
         /\ req' = [conversation_id |-> id]
         /\ IF ~Has(session, "user")
            THEN /\ resp' = Jsonify([success |-> FALSE, error |-> "Not authenticated"])
                 /\ calls' = <<>>
            ELSE \E r \in Failures
                          \cup {Http(200, [success |-> TRUE, data |-> m]) : m \in MessageLists}
                          \cup {Http(200, [success |-> TRUE])} :
                   LET c == Call("conversations/" \o id \o "/messages", "GET", EmptyDict,
                                 FALSE, Get(session, "token", None), r)
                   IN  /\ calls' = <<c>>
                       /\ resp' = IF Success(c.result)
                                  THEN Jsonify([success |-> TRUE,
                                                messages |-> Get(c.result, "data", <<>>)])
                                  ELSE Jsonify([success |-> FALSE,
                                                error |-> Get(c.result, "error",
                                                              "Failed to get messages")])

FileIds == {"f1"}

DeleteFile ==
    /\ Serving
    /\ route' = "delete_file"
    /\ Responded
    /\ UNCHANGED <<session, disk>>
    /\ \E id \in FileIds :
         /\ req' = [file_id |-> id]
         /\ IF ~Has(session, "user")
            THEN /\ resp' = Jsonify([success |-> FALSE, error |-> "Not authenticated"])
                 /\ calls' = <<>>
            ELSE \E r \in Failures \cup {Http(200, [success |-> TRUE]),
                                         Http(204, [deleted |-> TRUE])} :
                   LET c == Call("files/" \o id \o "?userId=" \o session.user.id, "DELETE",
                                 EmptyDict, FALSE, Get(session, "token", None), r)
                   IN  /\ calls' = <<c>>
                       /\ resp' = Jsonify(c.result)

DebugSession ==
    /\ Serving
    /\ route' = "debug_session"
    /\ req' = EmptyDict
    /\ calls' = <<>>
    /\ Responded
    /\ UNCHANGED <<session, disk>>
    /\ resp' = IF ~Has(session, "user")
               THEN Jsonify([error |-> "Not authenticated"])
               ELSE Jsonify([user |-> session.user,
                             token |-> Get(session, "token", "No token"),
                             guest_limitations |-> Get(session, "guest_limitations", None)])

ProbeAnswers == {Transport, Http(401, [message |-> "bad request"]), Http(200, [success |-> TRUE])}

TestBackend ==
    /\ Serving
    /\ route' = "test_backend"
    /\ req' = EmptyDict
    /\ Responded
    /\ UNCHANGED <<session, disk>>
    /\ IF ~Has(session, "user")
       THEN /\ resp' = Jsonify([error |-> "Not authenticated"])
            /\ calls' = <<>>
       ELSE \E r1 \in ProbeAnswers, r2 \in ProbeAnswers, r3 \in ProbeAnswers :
              LET token == Get(session, "token", None)
                  c1 == Call("health", "GET", EmptyDict, FALSE, None, r1)
                  c2 == Call("conversations?userId=" \o session.user.id \o "&limit=5",
                             "GET", EmptyDict, FALSE, token, r2)
                  c3 == Call("users/profile", "GET", EmptyDict, FALSE, token, r3)
              IN  /\ calls' = <<c1, c2, c3>>
                  /\ resp' = Jsonify([health |-> c1.result,
                                      conversations_get |-> c2.result,
                                      user_profile |-> c3.result])

---------------------------------------------------------------------------
(* send_message_stream and its generator generate_stream *)

\* a line of bytes that is not UTF-8
BadBytes == "\\xff"

Lines == {"", "a", "b", BadBytes}

\* the frame without its "data: " field name
DataFrameBare(line) == line \o "\n\n"

DataFrame(line) == "data: " \o line \o "\n\n"

FailedFrame == "data: {'error': 'Failed to generate response'}\n\n"

StreamErrorFrame == "data: {'error': 'Stream error: ...'}\n\n"

Sentinel == "data: [DONE]\n\n"

StreamAnswers ==
    {Transport, Http(200, EmptyDict), Http(201, EmptyDict),
     Http(404, [error |-> "not found"]), HttpRaw(500)}

\* what generate_stream makes of the backend's answer to its own requests.post
StreamResult(r) ==
    IF r.kind = "transport" THEN [error |-> "Stream error: ..."]
    ELSE IF r.status = 200 THEN r.body
    ELSE [error |-> "Failed to generate response"]

StreamCall(userId, token, r) ==
    [endpoint |-> "http://localhost:3000/api/ai/generate", method |-> "POST",
     data |-> MessageData(userId, TRUE),
     headers |-> [Authorization |-> "Bearer " \o token],
     response |-> r, result |-> StreamResult(r)]

\* send_message_stream without its check of the session
StreamAuthenticatedSkipped == TRUE

\* the check send_message_stream makes before anything else
StreamAuthenticated == Has(session, "user")

\* the handler: it returns the Response that wraps the generator
SendMessageStream ==
    /\ Serving
    /\ route' = "send_message_stream"
    /\ calls' = <<>>
    /\ delivered' = <<>>
    /\ frames' = <<>>
    /\ upstream' = "none"
    /\ UNCHANGED <<session, disk>>
    /\ IF ~StreamAuthenticated
       THEN /\ resp' = Jsonify([success |-> FALSE, error |-> "Not authenticated"])
            /\ req' = EmptyDict
            /\ pc' = "responded"
       ELSE /\ resp' = [kind |-> "stream", body |-> [mimetype |-> "text/event-stream"]]
            /\ req' = [token |-> Get(session, "token", None)]
            /\ pc' = "start"

\* generate_stream up to the status check; building message_data may raise (a
\* field missing from the request or from the session, the session used outside
\* its request)
StreamConnect ==
    /\ pc = "start"
    /\ UNCHANGED <<session, disk, route, req, resp, delivered>>
    /\ \E payloadOk \in (IF Has(session, "user") THEN BOOLEAN ELSE {FALSE}),
          r \in StreamAnswers :
         IF ~payloadOk
         THEN /\ calls' = calls
              /\ upstream' = "none"
              /\ frames' = Append(frames, StreamErrorFrame)
              /\ pc' = "final"
         ELSE /\ calls' = <<StreamCall(session.user.id, req.token, r)>>
              /\ IF r.kind = "transport"
                 THEN /\ upstream' = "refused"
                      /\ frames' = Append(frames, StreamErrorFrame)
                      /\ pc' = "final"
                 ELSE IF r.status = 200
                 THEN /\ upstream' = "open"
                      /\ frames' = frames
                      /\ pc' = "relay"
                 ELSE /\ upstream' = "rejected"
                      /\ frames' = Append(frames, FailedFrame)
                      /\ pc' = "final"

\* one turn of the loop over response.iter_lines()
StreamLine ==
    /\ pc = "relay"
    /\ Len(delivered) < MaxLines
    /\ UNCHANGED <<session, disk, route, req, resp, calls>>
    /\ \E line \in Lines :
         /\ delivered' = Append(delivered, line)
         /\ IF line = ""
            THEN /\ frames' = frames
                 /\ upstream' = upstream
                 /\ pc' = pc
            ELSE IF line = BadBytes
            THEN /\ frames' = Append(frames, StreamErrorFrame)
                 /\ upstream' = "abandoned"
                 /\ pc' = "final"
            ELSE /\ frames' = Append(frames, DataFrame(line))
                 /\ upstream' = upstream
                 /\ pc' = pc

\* the except clause swallowing the failure instead of yielding the error frame
StreamReadFailSilent ==
    /\ pc = "relay"
    /\ upstream' = "broken"
    /\ pc' = "final"
    /\ UNCHANGED <<session, disk, route, req, resp, calls, delivered, frames>>

\* reading the next line raises: the connection broke
StreamReadFail ==
    /\ pc = "relay"
    /\ upstream' = "broken"
    /\ frames' = Append(frames, StreamErrorFrame)
    /\ pc' = "final"
    /\ UNCHANGED <<session, disk, route, req, resp, calls, delivered>>

\* response.iter_lines() is exhausted
StreamEof ==
    /\ pc = "relay"
    /\ upstream' = "eof"
    /\ pc' = "final"
    /\ UNCHANGED <<session, disk, route, req, resp, calls, delivered, frames>>

\* the last statement of generate_stream
StreamSentinel ==
    /\ pc = "final"
    /\ frames' = Append(frames, Sentinel)
    /\ pc' = "done"
    /\ UNCHANGED <<session, disk, route, req, resp, calls, upstream, delivered>>

---------------------------------------------------------------------------
(* The response has been sent (for a stream: the generator is exhausted) and
   the request is over; the session and the disk are what outlives it. *)

RequestDone ==
    /\ pc \in {"responded", "done"}
    /\ pc' = "idle"
    /\ upstream' = "none"
    /\ route' = "none"
    /\ req' = EmptyDict
    /\ resp' = NoResponse
    /\ calls' = <<>>
    /\ delivered' = <<>>
    /\ frames' = <<>>
    /\ UNCHANGED <<session, disk>>

---------------------------------------------------------------------------

Init ==
    /\ session = EmptyDict
    /\ disk = {}
    /\ route = "none"
    /\ req = EmptyDict
    /\ resp = NoResponse
    /\ calls = <<>>
    /\ pc = "idle"
    /\ upstream = "none"
    /\ delivered = <<>>
    /\ frames = <<>>

Next ==
    \/ Index
    \/ RegisterPage
    \/ RegisterStep
    \/ RegisterVerify
    \/ LoginPage
    \/ Login
    \/ GuestLogin
    \/ Logout
    \/ Dashboard
    \/ ConversationView
    \/ CreateConversation
    \/ UploadFile
    \/ SendMessage
    \/ GetMessages
    \/ DeleteFile
    \/ DebugSession
    \/ TestBackend
    \/ SendMessageStream
    \/ StreamConnect
    \/ StreamLine
    \/ StreamReadFail
    \/ StreamEof
    \/ StreamSentinel
    \/ RequestDone

Spec == Init /\ [][Next]_vars

---------------------------------------------------------------------------
(* Properties. *)

AuthRoutes ==
    {"dashboard", "conversation_view", "create_conversation", "upload_file",
     "send_message", "send_message_stream", "get_messages", "delete_file",
     "debug_session", "test_backend"}

\* a redirect to the landing page, or a JSON payload that reports the failure
NotAuthenticatedResponse(r) ==
    \/ r.kind = "redirect" /\ r.body.location = "index"
    \/ /\ r.kind = "json"
       /\ Get(r.body, "error", None) = "Not authenticated"
       /\ Get(r.body, "success", FALSE) = FALSE

\* C1: a request to a route that requires authentication, made while the
\* session holds no 'user', is answered with a failure (a redirect or a JSON
\* failure payload) and the request issues no backend call: the handler logs
\* none and starts no generator that could.
C1_NoUserNoBackendCall ==
    [][ (pc = "idle" /\ ~Has(session, "user") /\ route' \in AuthRoutes)
        => /\ NotAuthenticatedResponse(resp')
           /\ calls' = <<>>
           /\ pc' = "responded" ]_vars

C1_Witness ==
    /\ pc = "responded"
    /\ route = "send_message_stream"
    /\ ~Has(session, "user")
    /\ Has(session, "_flashes")
    /\ resp = Jsonify([success |-> FALSE, error |-> "Not authenticated"])
    /\ calls = <<>>

\* C2: when upload_file returns, the temporary file the request created no
\* longer exists, whatever the exit path.
C2_TempFileRemoved ==
    (pc = "responded" /\ route = "upload_file") => req.saved \cap disk = {}

\* the lines generate_stream relays: the non-empty lines delivered before the
\* first one it cannot decode
RECURSIVE Relayed(_)
Relayed(d) ==
    IF d = <<>> \/ Head(d) = "\\xff" THEN <<>>
    ELSE IF Head(d) = "" THEN Relayed(Tail(d))
    ELSE <<Head(d)>> \o Relayed(Tail(d))

LineFrames(ls) == [i \in DOMAIN ls |-> "data: " \o ls[i] \o "\n\n"]

DoneFrame == "data: [DONE]\n\n"

ErrorFrames ==
    {"data: {'error': 'Failed to generate response'}\n\n",
     "data: {'error': 'Stream error: ...'}\n\n"}

\* C3 as stated: when the backend stream ended normally, when the backend
\* answered a non-200 status and when the upstream read failed partway, the
\* frames of the finished stream are the frames of the relayed lines, in
\* order, and then the sentinel, and nothing else.
C3_OnlyLinesThenSentinel ==
    (pc = "done" /\ upstream \in {"eof", "rejected", "broken"})
    => frames = LineFrames(Relayed(delivered)) \o <<DoneFrame>>

\* C3 amended: the frames of a finished stream are one frame per relayed line
\* in arrival order, then one error frame unless the backend stream ended
\* normally, then the sentinel as the last frame; no sentinel is sent before.
C3_LinesErrorSentinel ==
    /\ pc = "done" =>
         \E e \in {<<>>} \cup {<<f>> : f \in ErrorFrames} :
            /\ frames = LineFrames(Relayed(delivered)) \o e \o <<DoneFrame>>
            /\ (e = <<>>) <=> (upstream = "eof")
    /\ pc \in {"start", "relay", "final"} =>
         \A i \in DOMAIN frames : frames[i] # DoneFrame

C3_Witness ==
    /\ pc = "done"
    /\ delivered = <<"a", "", "b">>
    /\ upstream = "broken"
    /\ Len(frames) = 4

\* the guestLimits object of the answer to the request's first backend call
SuppliedLimits ==
    Get(Get(calls[1].response.body, "usageInfo", EmptyDict), "guestLimits", EmptyDict)

\* C4: after a successful send_message of a guest whose answer supplies guest
\* limits, the session's record holds exactly three counters, each the one the
\* answer supplied (the handler's default 5, 0, 5 for one it left out): the
\* record is a function of the answer alone, nothing of the prior record is kept.
C4_GuestRecordFromResponse ==
    ( /\ pc = "responded"
      /\ route = "send_message"
      /\ resp.body.success = TRUE
      /\ session.user.role = "guest"
      /\ SuppliedLimits # EmptyDict )
    => /\ DOMAIN session.guest_limitations =
            {"totalMessagesLimit", "totalMessagesUsed", "remainingMessages"}
       /\ session.guest_limitations.totalMessagesLimit =
            (IF Has(SuppliedLimits, "totalMessages")
             THEN SuppliedLimits.totalMessages ELSE 5)
       /\ session.guest_limitations.totalMessagesUsed =
            (IF Has(SuppliedLimits, "totalMessagesUsed")
             THEN SuppliedLimits.totalMessagesUsed ELSE 0)
       /\ session.guest_limitations.remainingMessages =
            (IF Has(SuppliedLimits, "remainingMessages")
             THEN SuppliedLimits.remainingMessages ELSE 5)
       /\ resp.body.updatedGuestLimitations = session.guest_limitations

C4_Witness ==
    /\ pc = "responded"
    /\ route = "send_message"
    /\ resp.body.success = TRUE
    /\ session.user.role = "guest"
    /\ SuppliedLimits = [totalMessages |-> 3, totalMessagesUsed |-> 0,
                         remainingMessages |-> 3]
    /\ session.guest_limitations =
         [totalMessagesLimit |-> 3, totalMessagesUsed |-> 0, remainingMessages |-> 3]

\* the message of a failure: the backend's error field, else its message
\* field, else the generic one
BestMessage(r) ==
    IF r.isJson /\ Has(r.body, "error") THEN r.body.error
    ELSE IF r.isJson /\ Has(r.body, "message") THEN r.body.message
    ELSE "HTTP " \o ToString(r.status) \o " error"

\* C5: every backend call of every route is classified the same way: a status
\* >= 400 gives a failure with the best message and the status code, a
\* transport failure gives a failure with a message, any other answer is
\* handed on as the backend's body.
C5_UniformClassification ==
    \A i \in DOMAIN calls :
        LET r == calls[i].response
            res == calls[i].result
        IN  IF r.kind = "transport"
            THEN Has(res, "error")
            ELSE IF r.status >= 400
            THEN /\ Get(res, "success", TRUE) = FALSE
                 /\ Get(res, "status_code", 0) = r.status
                 /\ Get(res, "error", None) = BestMessage(r)
            ELSE res = r.body

BearerRoutes ==
    {"dashboard", "conversation_view", "create_conversation", "get_messages",
     "send_message", "send_message_stream", "upload_file", "delete_file"}

\* C6: every backend call of a route that lists or creates conversations,
\* lists messages, generates (buffered or streamed), uploads or deletes a file
\* carries "Authorization: Bearer <the session's token>".
C6_BearerOnEveryCall ==
    route \in BearerRoutes =>
        \A i \in DOMAIN calls :
            /\ Has(session, "token")
            /\ Get(calls[i].headers, "Authorization", None) = "Bearer " \o session.token

\* C7: the verify step fails whenever the session holds no pending email or
\* the backend reports failure, and a verify step that succeeds leaves no
\* pending email in the session.
C7_VerifyNeedsPendingEmail ==
    [][ (pc = "idle" /\ route' = "register" /\ Get(req', "step", None) = "verify")
        => /\ (~Has(session, "pending_email") \/ ~Success(calls'[1].response.body))
                => resp'.body.success = FALSE
           /\ resp'.body.success = TRUE => ~Has(session', "pending_email") ]_vars

\* C8: logout leaves no user, token, guest record or pending email in the
\* session and calls no backend; from then on the session gets a user only by
\* a login or guest login that succeeds, and until then every route that
\* requires authentication answers not-authenticated.
C8_LogoutClearsSession ==
    [][ /\ (pc = "idle" /\ route' = "logout")
           => /\ DOMAIN session' \cap
                    {"user", "token", "guest_limitations", "pending_email"} = {}
              /\ calls' = <<>>
        /\ (~Has(session, "user") /\ Has(session', "user"))
           => /\ route' \in {"login", "guest_login"}
              /\ resp'.body.success = TRUE
        /\ (pc = "idle" /\ ~Has(session, "user") /\ route' \in AuthRoutes)
           => NotAuthenticatedResponse(resp') ]_vars

C8_Witness ==
    /\ pc = "responded"
    /\ route = "dashboard"
    /\ resp = Redirect("index")
    /\ session = [_flashes |-> <<"You have been logged out successfully">>]

\* the extensions the upload accepts
UploadExtensions ==
    { <<"t", "x", "t">>, <<"p", "d", "f">>, <<"p", "n", "g">>, <<"j", "p", "g">>,
      <<"j", "p", "e", "g">>, <<"g", "i", "f">>, <<"m", "p", "3">>,
      <<"m", "p", "4">>, <<"w", "a", "v">>, <<"o", "g", "g">> }

\* the name ends, case-insensitively, with a dot and one of the extensions
EndsWithAllowedExtension(f) ==
    \E e \in UploadExtensions :
        /\ Len(f) > Len(e)
        /\ f[Len(f) - Len(e)] = "."
        /\ Lower(SubSeq(f, Len(f) - Len(e) + 1, Len(f))) = e

\* C9: an upload whose filename has no extension, or one outside the accepted
\* extensions, is rejected with a failure, and neither a temporary file was
\* created nor a backend call made.
C9_RejectedBeforeSave ==
    (pc = "responded" /\ route = "upload_file" /\ ~EndsWithAllowedExtension(req.filename))
    => /\ resp.kind = "json"
       /\ resp.body.success = FALSE
       /\ req.saved = {}
       /\ calls = <<>>

C9_Witness ==
    /\ pc = "responded"
    /\ route = "upload_file"
    /\ Has(session, "user")
    /\ req.hasFile
    /\ req.filename = <<"a", ".", "t", "x", "t", ".", "e", "x", "e">>
    /\ resp = Jsonify([success |-> FALSE, error |-> "File type not allowed"])
    /\ req.saved = {}

\* C10: a finished stream ends with the sentinel; when the upstream connection
\* failed (refused at connect, or broken while relaying) exactly one error
\* frame was sent and it is the frame right before the sentinel; when the
\* backend stream ended normally with status 200 no error frame was sent.
C10_ErrorFrameBeforeSentinel ==
    pc = "done" =>
        LET n == Len(frames)
            errors == {i \in DOMAIN frames : frames[i] \in ErrorFrames}
        IN  /\ n >= 1
            /\ frames[n] = DoneFrame
            /\ upstream \in {"refused", "broken"} => errors = {n - 1}
            /\ upstream = "eof" => errors = {}

C10_Witness ==
    /\ pc = "done"
    /\ upstream = "refused"
    /\ frames = <<"data: {'error': 'Stream error: ...'}\n\n", DoneFrame>>
    /\ calls # <<>>

\* the string holds nothing but whitespace (the empty string included)
IsBlank(t) == \A i \in 1..Len(t) : t[i] \in Whitespace

\* u is t without its leading and trailing whitespace, and is not empty
IsTrimOf(u, t) ==
    /\ u # <<>>
    /\ u[1] \notin Whitespace
    /\ u[Len(u)] \notin Whitespace
    /\ \E i \in 1..Len(t) :
         /\ i + Len(u) - 1 <= Len(t)
         /\ u = SubSeq(t, i, i + Len(u) - 1)
         /\ IsBlank(SubSeq(t, 1, i - 1))
         /\ IsBlank(SubSeq(t, i + Len(u), Len(t)))

\* C11: a create-conversation request of a session with a user whose title is
\* missing, empty or only whitespace is answered with a failure and makes no
\* backend call; and every conversation-create call that is made carries a
\* non-empty title without leading or trailing whitespace, the trimmed title
\* of the request.
C11_BlankTitleRejected ==
    (route = "create_conversation" /\ Has(session, "user")) =>
        LET t == Get(req.data, "title", <<>>)
        IN  /\ IsBlank(t) => /\ resp.kind = "json"
                              /\ resp.body.success = FALSE
                              /\ calls = <<>>
            /\ \A i \in 1..Len(calls) :
                 (calls[i].endpoint = "conversations" /\ calls[i].method = "POST")
                     => IsTrimOf(calls[i].data.title, t)

\* a title padded with whitespace was sent to the backend trimmed
C11_Witness ==
    /\ route = "create_conversation"
    /\ Has(session, "user")
    /\ Has(req.data, "title")
    /\ req.data.title = <<" ", "H", "i", " ">>
    /\ Len(calls) = 1
    /\ calls[1].endpoint = "conversations"
    /\ calls[1].data.title = <<"H", "i">>

\* C12: the session holds a guest usage-limit record only while its user has
\* role guest.
C12_GuestRecordOnlyForGuest ==
    Has(session, "guest_limitations") =>
        (Has(session, "user") /\ session.user.role = "guest")

====
